---------------------------- MODULE Spec2Model ----------------------------
(***************************************************************************)
(* Model of the artifact-packaging pipeline of boot-rust:                  *)
(*   src/src/project_builder.rs  (path guard, content sanitizer, block     *)
(*                                extraction, upsert, infrastructure and   *)
(*                                bootstrap packaging)                     *)
(*   src/src/server.rs           (handle_generate: the packaging run and   *)
(*                                the manifest entry)                      *)
(*   src/src/llm_client.rs       (generate: the awaits of the provider     *)
(*                                call and its error returns)              *)
(*                                                                         *)
(* Text is a sequence of characters.  A character is a one-character       *)
(* string, except U+0060 (the fence character) and U+FEFF (the byte-order  *)
(* mark), which are written BQ and BOM, and the control and white-space    *)
(* characters a string cannot spell, which are written as code points.     *)
(***************************************************************************)
EXTENDS Integers, Sequences, FiniteSets, TLC

VARIABLES
    pc,             \* position of the process: new(), then one call of
                    \* handle_generate
    other,          \* a second call of handle_generate on the same servicer
    llm_output,     \* the model output handed to package_code_files
    gen,            \* the blocks llm_output was written from (input descriptor)
    tera,           \* template names the Tera instance holds
    project_type,   \* spec.project_type
    files,          \* response.files: sequence of [path, content]
    code_count,     \* value returned by package_code_files
    bootstrapped,   \* whether package_bootstrap_files was invoked
    rendered_count, \* value returned by package_bootstrap_files
    ret,            \* what handle_generate returned: None, Ok(files) or Err
    raw_path,       \* argument of sanitize_path (pure-function harness)
    path_result,    \* its result
    san_path,       \* arguments of sanitize_nonmarkdown_output (harness)
    san_in,
    san_once,       \* sanitize(p, c)
    san_twice,      \* sanitize(p, sanitize(p, c))
    slice_in,       \* the two outputs slice_file_blocks is applied to (harness)
    slice_out,      \* its two results
    infra_files,    \* response.files handed to package_infrastructure_files
                    \* (harness)
    infra_out       \* its result

vars == <<pc, other, llm_output, gen, tera, project_type, files, code_count,
          bootstrapped, rendered_count, ret,
          raw_path, path_result, san_path, san_in, san_once, san_twice,
          slice_in, slice_out,
                   infra_files, infra_out>>

---------------------------------------------------------------------------
(* Characters and character classes.                                       *)

BQ == "BACKTICK"
BOM == "BOM"

\* U+0000..U+001F in order: a character with no spelling in a string is
\* written as its code point
ControlChars ==
    <<"U+0000", "U+0001", "U+0002", "U+0003", "U+0004", "U+0005", "U+0006",
      "U+0007", "U+0008", "\t", "\n", "U+000B", "\f", "\r", "U+000E",
      "U+000F", "U+0010", "U+0011", "U+0012", "U+0013", "U+0014", "U+0015",
      "U+0016", "U+0017", "U+0018", "U+0019", "U+001A", "U+001B", "U+001C",
      "U+001D", "U+001E", "U+001F">>

\* the White_Space characters above U+0020, written as their code points
UnicodeSpaces ==
    {"U+0085", "U+00A0", "U+1680", "U+2000", "U+2001", "U+2002", "U+2003",
     "U+2004", "U+2005", "U+2006", "U+2007", "U+2008", "U+2009", "U+200A",
     "U+2028", "U+2029", "U+202F", "U+205F", "U+3000"}

\* \s of the regex crate and char::is_whitespace: the White_Space property
IsSpace(c) ==
    \/ c \in {"\t", "\n", "U+000B", "\f", "\r", " "}
    \/ c \in UnicodeSpaces

UpperSeq == <<"A","B","C","D","E","F","G","H","I","J","K","L","M",
              "N","O","P","Q","R","S","T","U","V","W","X","Y","Z">>
LowerSeq == <<"a","b","c","d","e","f","g","h","i","j","k","l","m",
              "n","o","p","q","r","s","t","u","v","w","x","y","z">>
Digits == {"0","1","2","3","4","5","6","7","8","9"}

\* [a-zA-Z0-9_-] of FULL_FENCE_RE
IsLangChar(c) ==
    \/ c \in Digits
    \/ c \in {"_", "-"}
    \/ \E k \in 1..26 : c = UpperSeq[k] \/ c = LowerSeq[k]

ToLowerChar(c) ==
    IF \E k \in 1..26 : c = UpperSeq[k]
    THEN LowerSeq[CHOOSE k \in 1..26 : c = UpperSeq[k]]
    ELSE c

to_ascii_lowercase(s) == [k \in 1..Len(s) |-> ToLowerChar(s[k])]

---------------------------------------------------------------------------
(* Generic text helpers (positions are 1-based; a position i names the     *)
(* place just before character i, Len(t)+1 is the end of the text).        *)

Max(S) == CHOOSE m \in S : \A k \in S : k <= m
Min(S) == CHOOSE m \in S : \A k \in S : m <= k

StartsWithAt(t, i, lit) ==
    /\ i >= 1
    /\ i + Len(lit) - 1 <= Len(t)
    /\ \A k \in 1..Len(lit) : t[i + k - 1] = lit[k]

starts_with(t, lit) == StartsWithAt(t, 1, lit)

ends_with(t, lit) ==
    Len(t) >= Len(lit) /\ StartsWithAt(t, Len(t) - Len(lit) + 1, lit)

\* t[i..] (empty when i is past the end)
From(t, i) == SubSeq(t, i, Len(t))

\* first position >= i that is the end of the text or holds a non-space
RECURSIVE SkipSpace(_, _)
SkipSpace(t, i) ==
    IF i <= Len(t) /\ IsSpace(t[i]) THEN SkipSpace(t, i + 1) ELSE i

\* first position >= i that is the end of the text or holds "\n"
RECURSIVE SkipToNewline(_, _)
SkipToNewline(t, i) ==
    IF i <= Len(t) /\ t[i] # "\n" THEN SkipToNewline(t, i + 1) ELSE i

\* first position >= i that is the end of the text or holds "\r" or "\n"
RECURSIVE SkipToLineBreak(_, _)
SkipToLineBreak(t, i) ==
    IF i <= Len(t) /\ t[i] \notin {"\r", "\n"}
    THEN SkipToLineBreak(t, i + 1) ELSE i

\* first position >= i that is the end of the text or holds a non-lang char
RECURSIVE SkipLang(_, _)
SkipLang(t, i) ==
    IF i <= Len(t) /\ IsLangChar(t[i]) THEN SkipLang(t, i + 1) ELSE i

\* last position <= i (down to 0) holding a non-space; 0 when there is none
RECURSIVE LastNonSpace(_, _)
LastNonSpace(t, i) ==
    IF i >= 1 /\ IsSpace(t[i]) THEN LastNonSpace(t, i - 1) ELSE i

\* str::trim
trim(t) == SubSeq(t, SkipSpace(t, 1), LastNonSpace(t, Len(t)))

\* (?m)^ : start of text or just after "\n"
LineStart(t, i) == i = 1 \/ (i >= 2 /\ i <= Len(t) + 1 /\ t[i - 1] = "\n")

\* (?m)$ : end of text or just before "\n"
LineEnd(t, i) == i = Len(t) + 1 \/ (i >= 1 /\ i <= Len(t) /\ t[i] = "\n")

\* str::replace(from, to) for one character
replace_char(t, from, to) ==
    [k \in 1..Len(t) |-> IF t[k] = from THEN to ELSE t[k]]

---------------------------------------------------------------------------
(* Option<String>                                                          *)

None == [some |-> FALSE, val |-> <<>>]
Some(v) == [some |-> TRUE, val |-> v]

---------------------------------------------------------------------------
(* project_builder.rs: content sanitizer                                   *)

MdSuffix == <<".", "m", "d">>
MarkdownSuffix == <<".", "m", "a", "r", "k", "d", "o", "w", "n">>
RstSuffix == <<".", "r", "s", "t">>

is_markdown_like(path) ==
    LET p == to_ascii_lowercase(path)
    IN  ends_with(p, MdSuffix) \/ ends_with(p, MarkdownSuffix)
            \/ ends_with(p, RstSuffix)

\* s.replace("\r\n", "\n").replace('\r', "\n"): the "\n" of each "\r\n" goes,
\* every "\r" becomes "\n"
normalize_newlines(s) ==
    LET Kept(k) == ~(s[k] = "\n" /\ k > 1 /\ s[k - 1] = "\r")
        keep == SelectSeq([k \in 1..Len(s) |-> k], Kept)
    IN  IF \A k \in 1..Len(s) : s[k] # "\r" THEN s
        ELSE [j \in 1..Len(keep) |->
                 IF s[keep[j]] = "\r" THEN "\n" ELSE s[keep[j]]]

\* LEADING_BOM_RE = ^\u{FEFF}
strip_bom(s) == IF Len(s) >= 1 /\ s[1] = BOM THEN Tail(s) ELSE s

HashHashHash == <<"#", "#", "#">>
FileColon == <<"F", "I", "L", "E", ":">>

\* FILE_MARKER_RE = (?m)^\s*###\s+FILE:.*\r?\n tried at position s:
\* the position just after the match, or 0 when it does not match there.
MarkerEndAt(t, s) ==
    LET a == SkipSpace(t, s)
        b == SkipSpace(t, a + 3)
        d == SkipToNewline(t, b + 5)
    IN  IF /\ LineStart(t, s)
           /\ StartsWithAt(t, a, HashHashHash)
           /\ b > a + 3
           /\ StartsWithAt(t, b, FileColon)
           /\ d <= Len(t)
        THEN d + 1 ELSE 0

\* leftmost position where FILE_MARKER_RE matches, 0 when none
FirstMarker(t) ==
    LET M == {s \in 1..Len(t) : MarkerEndAt(t, s) > 0}
    IN  IF M = {} THEN 0 ELSE Min(M)

\* FILE_MARKER_RE.replace(s, ""): the first match only
strip_leading_file_marker(t) ==
    LET s == FirstMarker(t)
    IN  IF s = 0 THEN t
        ELSE SubSeq(t, 1, s - 1) \o From(t, MarkerEndAt(t, s))

Fence == <<BQ, BQ, BQ>>

\* FULL_FENCE_RE = (?s)^\s*```[a-zA-Z0-9_-]*\s*\r?\n(.*)\r?\n```\s*$
\* Capture 1 under leftmost-first matching: the opening ends at the last
\* "\n" of the white space after the language tag that still leaves room for
\* the closing line; the closing is the "\n```" that ends the text (white
\* space aside).
strip_full_file_fence(t) ==
    LET a == SkipSpace(t, 1)
        m == SkipLang(t, a + 3)
        w == SkipSpace(t, m)
        r == LastNonSpace(t, Len(t))
        p == r - 3
        E == {e \in m..(w - 1) : t[e] = "\n" /\ e < p}
    IN  IF /\ StartsWithAt(t, a, Fence)
           /\ p >= 1
           /\ StartsWithAt(t, r - 2, Fence)
           /\ t[p] = "\n"
           /\ E # {}
        THEN Some(SubSeq(t, Max(E) + 1, p - 1))
        ELSE None

sanitize_nonmarkdown_output(path, content0) ==
    LET content == normalize_newlines(strip_bom(content0))
        no_marker == strip_leading_file_marker(content)
        inner == strip_full_file_fence(no_marker)
    IN  IF is_markdown_like(path) THEN content
        ELSE IF inner.some THEN normalize_newlines(inner.val)
        ELSE no_marker

---------------------------------------------------------------------------
(* project_builder.rs: path guard                                          *)

DotSlash == <<".", "/">>
TemplatesPrefix == <<"t", "e", "m", "p", "l", "a", "t", "e", "s", "/">>

\* Path::is_absolute on a Unix target
is_absolute(p) == Len(p) >= 1 /\ p[1] = "/"

\* Path::components() yields Component::ParentDir: some "/"-separated
\* component is exactly ".."
has_traversal(p) ==
    \E i \in 1..(Len(p) - 1) :
        /\ p[i] = "." /\ p[i + 1] = "."
        /\ (i = 1 \/ p[i - 1] = "/")
        /\ (i + 1 = Len(p) \/ p[i + 2] = "/")

\* sanitize_path without the strip_prefix("./") step
sanitize_path_keeps_dot_slash(path) ==
    LET p == trim(replace_char(path, "\\", "/"))
    IN  IF p = <<>> THEN None
        ELSE IF is_absolute(p) THEN None
        ELSE IF starts_with(p, TemplatesPrefix) THEN None
        ELSE IF has_traversal(p) THEN None
        ELSE Some(p)

sanitize_path(path) ==
    LET p0 == trim(replace_char(path, "\\", "/"))
        p == IF starts_with(p0, DotSlash) THEN From(p0, 3) ELSE p0
    IN  IF p0 = <<>> THEN None
        ELSE IF is_absolute(p) THEN None
        ELSE IF starts_with(p, TemplatesPrefix) THEN None
        ELSE IF has_traversal(p) THEN None
        ELSE Some(p)

---------------------------------------------------------------------------
(* project_builder.rs: artifact registry                                   *)

File(path, content) == [path |-> path, content |-> content]

Paths(fs) == [k \in 1..Len(fs) |-> fs[k].path]

\* upsert_file that pushes without looking for the path
upsert_file_always_appends(fs, path, content) ==
    Append(fs, File(path, content))

upsert_file(fs, path, content) ==
    IF \E k \in 1..Len(fs) : fs[k].path = path
    THEN LET idx == Min({k \in 1..Len(fs) : fs[k].path = path})
         IN  [fs EXCEPT ![idx].content = content]
    ELSE Append(fs, File(path, content))

---------------------------------------------------------------------------
(* project_builder.rs: block extraction                                    *)

NoHeader == [ok |-> FALSE, pstart |-> 0, pend |-> 0, end |-> 0]

\* \s*\r?$ after a path that ends at pe: the position where the header match
\* ends, 0 when it cannot end.
HeaderCloseEnd(t, pe) ==
    LET we == SkipSpace(t, pe)
        E == {e \in pe..we : LineEnd(t, e)}
    IN  IF E = {} THEN 0 ELSE Max(E)

\* \s*(?P<path>[^\r\n]+)\s*\r?$ after "FILE:" at b: the greedy \s* gives
\* characters back one at a time, so the path starts at q, q-1, ..., b.
RECURSIVE HeaderTry(_, _, _)
HeaderTry(t, b, q) ==
    IF q < b THEN NoHeader
    ELSE LET pe == SkipToLineBreak(t, q)
             e == HeaderCloseEnd(t, pe)
         IN  IF q <= Len(t) /\ t[q] \notin {"\r", "\n"} /\ e > 0
             THEN [ok |-> TRUE, pstart |-> q, pend |-> pe, end |-> e]
             ELSE HeaderTry(t, b, q - 1)

\* FILE_HEADER_RE = (?m)^###\s*FILE:\s*(?P<path>[^\r\n]+)\s*\r?$ tried at s
HeaderAt(t, s) ==
    LET a == SkipSpace(t, s + 3)
    IN  IF /\ LineStart(t, s)
           /\ StartsWithAt(t, s, HashHashHash)
           /\ StartsWithAt(t, a, FileColon)
        THEN HeaderTry(t, a + 5, SkipSpace(t, a + 5))
        ELSE NoHeader

\* captures_iter: the successive non-overlapping matches from position s,
\* each as (start, end, raw_path)
RECURSIVE HeadersFrom(_, _)
HeadersFrom(t, from) ==
    LET S == {s \in from..Len(t) : HeaderAt(t, s).ok}
    IN  IF S = {} THEN <<>>
        ELSE LET s == Min(S)
                 h == HeaderAt(t, s)
             IN  <<[start |-> s, end |-> h.end,
                    raw_path |-> trim(SubSeq(t, h.pstart, h.pend - 1))]>>
                 \o HeadersFrom(t, h.end)

\* whether the text between two headers opens a fence and never closes it
OpensUnclosedFence(slice) ==
    /\ StartsWithAt(slice, SkipSpace(slice, 1), Fence)
    /\ ~strip_full_file_fence(slice).some

\* the headers with those dropped that follow an unclosed fence
Headers_outside_open_fence(t) ==
    LET hs == HeadersFrom(t, 1)
        keep == {i \in 1..Len(hs) :
                    i = 1 \/ ~OpensUnclosedFence(
                                 SubSeq(t, hs[i - 1].end, hs[i].start - 1))}
    IN  [k \in 1..Cardinality(keep) |->
            hs[CHOOSE i \in keep : Cardinality({j \in keep : j <= i}) = k]]

Headers(t) == HeadersFrom(t, 1)

\* strip_prefix("\r\n"), else strip_prefix('\n')
StripLeadingNewline(slice) ==
    IF starts_with(slice, <<"\r", "\n">>) THEN From(slice, 3)
    ELSE IF starts_with(slice, <<"\n">>) THEN From(slice, 2)
    ELSE slice

\* the text of header i: from the end of its header match to the start of
\* the next header (or the end of the output)
BlockSlice(t, hs, i) ==
    SubSeq(t, hs[i].end,
           (IF i + 1 <= Len(hs) THEN hs[i + 1].start ELSE Len(t) + 1) - 1)

RECURSIVE BlocksFrom(_, _, _)
BlocksFrom(t, hs, i) ==
    IF i > Len(hs) THEN <<>>
    ELSE LET sp == sanitize_path(hs[i].raw_path)
         IN  IF sp.some
             THEN <<File(sp.val,
                         sanitize_nonmarkdown_output(sp.val,
                             StripLeadingNewline(BlockSlice(t, hs, i))))>>
                  \o BlocksFrom(t, hs, i + 1)
             ELSE BlocksFrom(t, hs, i + 1)

\* slice_file_blocks leaving its loop at the first rejected path
RECURSIVE BlocksUntilRejected(_, _, _)
BlocksUntilRejected(t, hs, i) ==
    IF i > Len(hs) THEN <<>>
    ELSE LET sp == sanitize_path(hs[i].raw_path)
         IN  IF sp.some
             THEN <<File(sp.val,
                         sanitize_nonmarkdown_output(sp.val,
                             StripLeadingNewline(BlockSlice(t, hs, i))))>>
                  \o BlocksUntilRejected(t, hs, i + 1)
             ELSE <<>>

slice_file_blocks_stops_at_rejected(t) ==
    BlocksUntilRejected(t, Headers(t), 1)

slice_file_blocks(t) == BlocksFrom(t, Headers(t), 1)

RECURSIVE UpsertAll(_, _, _)
UpsertAll(fs, blocks, i) ==
    IF i > Len(blocks) THEN fs
    ELSE UpsertAll(upsert_file(fs, blocks[i].path, blocks[i].content),
                   blocks, i + 1)

\* package_code_files: the files after it and the count it returns
package_code_files(t, fs) ==
    LET blocks == slice_file_blocks(t)
    IN  [files |-> UpsertAll(fs, blocks, 1), count |-> Len(blocks)]

---------------------------------------------------------------------------
(* project_builder.rs: infrastructure files                                *)

Ok(v) == [ok |-> TRUE, val |-> v]
Err == [ok |-> FALSE, val |-> <<>>]

\* A Tera instance is [names, failing]: the template names it holds, and
\* those of them whose render returns Err.

\* tera.get_template_names()
get_template_names(t) == t.names

\* tera.render(name, ctx) for a template the instance holds.  Rendering is
\* Tera's: it fails for the templates in t.failing, and the text of a
\* successful render is kept opaque: one token naming the template,
\* followed by a CRLF line end.
Render(t, name) ==
    IF name \in t.failing THEN Err ELSE Ok(<<name, "\r", "\n">>)

\* default_gitignore(): the built-in text, verbatim
default_gitignore ==
    <<"#", " ", "R", "u", "s", "t", " ", "/", " ", "C", "a", "r", "g", "o",
    "\n", "/", "t", "a", "r", "g", "e", "t", "/", "\n", "*", "*", "/", "*",
    ".", "r", "s", ".", "b", "k", "\n", "\n", "#", " ", "E", "d", "i", "t",
    "o", "r", "s", " ", "&", " ", "I", "D", "E", "s", "\n", ".", "v", "s",
    "c", "o", "d", "e", "/", "\n", ".", "i", "d", "e", "a", "/", "\n", "*",
    ".", "i", "m", "l", "\n", "\n", "#", " ", "O", "S", " ", "j", "u", "n",
    "k", "\n", ".", "D", "S", "_", "S", "t", "o", "r", "e", "\n", "T", "h",
    "u", "m", "b", "s", ".", "d", "b", "\n", "\n", "#", " ", "C", "o", "v",
    "e", "r", "a", "g", "e", " ", "/", " ", "p", "r", "o", "f", "i", "l",
    "i", "n", "g", "\n", "*", ".", "p", "r", "o", "f", "r", "a", "w", "\n",
    "*", ".", "p", "r", "o", "f", "d", "a", "t", "a", "\n", "/", "t", "a",
    "r", "g", "e", "t", "/", "l", "l", "v", "m", "-", "c", "o", "v", "/",
    "\n", "c", "o", "v", "e", "r", "a", "g", "e", "/", "\n", "\n", "#", " ",
    "P", "y", "t", "h", "o", "n", " ", "(", "i", "f", " ", "p", "r", "e",
    "s", "e", "n", "t", ")", "\n", "/", ".", "v", "e", "n", "v", "/", "\n",
    "_", "_", "p", "y", "c", "a", "c", "h", "e", "_", "_", "/", "\n", "*",
    ".", "p", "y", "c", "\n">>

CargoToml ==
    <<"C", "a", "r", "g", "o", ".", "t", "o", "m", "l">>
Makefile ==
    <<"M", "a", "k", "e", "f", "i", "l", "e">>
ReadmeMd ==
    <<"R", "E", "A", "D", "M", "E", ".", "m", "d">>
GitIgnore ==
    <<".", "g", "i", "t", "i", "g", "n", "o", "r", "e">>

CargoCandidates ==
    <<"rust/Cargo.toml.template", "rust/Cargo.toml.tera",
      "shared/Cargo.toml.template", "shared/Cargo.toml.tera">>
MakefileCandidates ==
    <<"rust/Makefile.template", "rust/Makefile.tera",
      "shared/Makefile.template", "shared/Makefile.tera">>
ReadmeCandidates ==
    <<"rust/README.md.template", "rust/README.md.tera",
      "shared/README.md.template", "shared/README.md.tera">>
GitignoreCandidates ==
    <<"rust/gitignore.template", "rust/gitignore.tera",
      "shared/gitignore.template", "shared/gitignore.tera">>

\* the plan of package_infrastructure_files, in its order
Plan ==
    <<[out_path |-> CargoToml, candidates |-> CargoCandidates],
      [out_path |-> Makefile,  candidates |-> MakefileCandidates],
      [out_path |-> ReadmeMd,  candidates |-> ReadmeCandidates],
      [out_path |-> GitIgnore, candidates |-> GitignoreCandidates]>>

\* the candidate search taking the last existing candidate, not the first
render_first_existing_takes_last(t, candidates) ==
    LET names == get_template_names(t)
        E == {k \in 1..Len(candidates) : candidates[k] \in names}
    IN  IF E = {} THEN Err ELSE Render(t, candidates[Max(E)])

\* the first candidate the instance holds is rendered and its result, Ok
\* or Err, returned; Err when it holds none
render_first_existing(t, candidates) ==
    LET names == get_template_names(t)
        E == {k \in 1..Len(candidates) : candidates[k] \in names}
    IN  IF E = {} THEN Err ELSE Render(t, candidates[Min(E)])

\* the loop turn with a missing required template skipped instead of failing
InfraStep_skips_missing(t, fs, item) ==
    LET r == render_first_existing(t, item.candidates)
        rendered == IF r.ok THEN r.val ELSE default_gitignore
    IN  IF ~r.ok /\ item.out_path # GitIgnore THEN Ok(fs)
        ELSE Ok(upsert_file(fs, item.out_path,
                    sanitize_nonmarkdown_output(item.out_path, rendered)))

\* one turn of the loop of package_infrastructure_files: Err when
\* render_first_existing returns Err for a required output, else the files
\* after the upsert (of the built-in text when it returns Err for
\* .gitignore)
InfraStep(t, fs, item) ==
    LET r == render_first_existing(t, item.candidates)
        rendered == IF r.ok THEN r.val ELSE default_gitignore
    IN  IF ~r.ok /\ item.out_path # GitIgnore THEN Err
        ELSE Ok(upsert_file(fs, item.out_path,
                    sanitize_nonmarkdown_output(item.out_path, rendered)))

\* the loop from plan entry i on; an Err leaves the loop at once (the ?
\* operator).  val holds response.files as the function leaves them.
RECURSIVE InfraFrom(_, _, _)
InfraFrom(t, fs, i) ==
    IF i > Len(Plan) THEN Ok(fs)
    ELSE LET r == InfraStep(t, fs, Plan[i])
         IN  IF r.ok THEN InfraFrom(t, r.val, i + 1)
             ELSE [ok |-> FALSE, val |-> fs]

package_infrastructure_files(t, fs) == InfraFrom(t, fs, 1)

---------------------------------------------------------------------------
(* project_builder.rs: bootstrap skeleton                                  *)

SrcMainRs ==
    <<"s", "r", "c", "/", "m", "a", "i", "n", ".", "r", "s">>
SrcLibRs ==
    <<"s", "r", "c", "/", "l", "i", "b", ".", "r", "s">>
SrcRoutesRs ==
    <<"s", "r", "c", "/", "r", "o", "u", "t", "e", "s", ".", "r", "s">>
TestsHealthRs ==
    <<"t", "e", "s", "t", "s", "/", "h", "e", "a", "l", "t", "h", ".", "r",
    "s">>
TestsLibRs ==
    <<"t", "e", "s", "t", "s", "/", "l", "i", "b", ".", "r", "s">>
TestsCliRs ==
    <<"t", "e", "s", "t", "s", "/", "c", "l", "i", ".", "r", "s">>
ServiceType ==
    <<"s", "e", "r", "v", "i", "c", "e">>
LibraryType ==
    <<"l", "i", "b", "r", "a", "r", "y">>

ServiceFiles ==
    <<[path |-> SrcMainRs,     tpl |-> "rust/bootstrap/service/main.rs.tera"],
      [path |-> SrcLibRs,      tpl |-> "rust/bootstrap/service/lib.rs.tera"],
      [path |-> SrcRoutesRs,   tpl |-> "rust/bootstrap/service/routes.rs.tera"],
      [path |-> TestsHealthRs,
       tpl |-> "rust/bootstrap/service/tests_health.rs.tera"]>>
LibraryFiles ==
    <<[path |-> SrcLibRs,   tpl |-> "rust/bootstrap/library/lib.rs.tera"],
      [path |-> TestsLibRs, tpl |-> "rust/bootstrap/library/tests_lib.rs.tera"]>>
CliFiles ==
    <<[path |-> SrcMainRs,  tpl |-> "rust/bootstrap/cli/main.rs.tera"],
      [path |-> SrcLibRs,   tpl |-> "rust/bootstrap/cli/lib.rs.tera"],
      [path |-> TestsCliRs, tpl |-> "rust/bootstrap/cli/tests_cli.rs.tera"]>>

\* match pt.as_str() { "service" => .., "library" => .., _ => .. }
BootstrapFiles(ptype) ==
    LET pt == to_ascii_lowercase(ptype)
    IN  IF pt = ServiceType THEN ServiceFiles
        ELSE IF pt = LibraryType THEN LibraryFiles
        ELSE CliFiles

\* the loop of package_bootstrap_files from entry i on, with the files and
\* rendered_count so far: a template the instance does not hold is
\* skipped; a render that fails returns Err at once (the ? operator),
\* leaving the files packaged before it
RECURSIVE BootstrapFrom(_, _, _, _, _)
BootstrapFrom(t, list, fs, count, i) ==
    IF i > Len(list) THEN [ok |-> TRUE, files |-> fs, count |-> count]
    ELSE IF list[i].tpl \notin get_template_names(t)
         THEN BootstrapFrom(t, list, fs, count, i + 1)
         ELSE LET r == Render(t, list[i].tpl)
              IN  IF ~r.ok THEN [ok |-> FALSE, files |-> fs, count |-> count]
                  ELSE BootstrapFrom(t, list,
                           upsert_file(fs, list[i].path,
                               sanitize_nonmarkdown_output(list[i].path,
                                                           r.val)),
                           count + 1, i + 1)

\* package_bootstrap_files returning the length of the list, not the
\* number of files it rendered
package_bootstrap_files_counts_list(t, ptype, fs) ==
    LET r == BootstrapFrom(t, BootstrapFiles(ptype), fs, 0, 1)
    IN  [ok |-> r.ok, files |-> r.files, count |-> Len(BootstrapFiles(ptype))]

\* Result<usize>: ok, the count when Ok, and response.files as it leaves them
package_bootstrap_files(t, ptype, fs) ==
    BootstrapFrom(t, BootstrapFiles(ptype), fs, 0, 1)

---------------------------------------------------------------------------
(* server.rs: the manifest entry                                           *)

ManifestPath ==
    <<".", "s", "p", "e", "x", "_", "m", "a", "n", "i", "f", "e", "s", "t",
    ".", "j", "s", "o", "n">>
ManifestOpen ==
    <<"{", "\"", "f", "i", "l", "e", "s", "\"", ":", "[">>
ManifestClose ==
    <<"]", "}">>
EntryOpen ==
    <<"{", "\"", "p", "a", "t", "h", "\"", ":", "\"">>
EntryClose ==
    <<"\"", "}">>

HexDigits ==
    <<"0", "1", "2", "3", "4", "5", "6", "7", "8", "9",
      "a", "b", "c", "d", "e", "f">>

\* serde_json's escaping of one character of a string: quote, backslash,
\* and U+0000..U+001F (short forms for \b \t \n \f \r, else \u00XX)
JsonEscapeChar(c) ==
    IF c = "\"" THEN <<"\\", "\"">>
    ELSE IF c = "\\" THEN <<"\\", "\\">>
    ELSE IF \E k \in 1..Len(ControlChars) : ControlChars[k] = c
    THEN LET n == (CHOOSE k \in 1..Len(ControlChars) : ControlChars[k] = c) - 1
         IN  IF n = 8 THEN <<"\\", "b">>
             ELSE IF n = 9 THEN <<"\\", "t">>
             ELSE IF n = 10 THEN <<"\\", "n">>
             ELSE IF n = 12 THEN <<"\\", "f">>
             ELSE IF n = 13 THEN <<"\\", "r">>
             ELSE <<"\\", "u", "0", "0",
                    HexDigits[(n \div 16) + 1], HexDigits[(n % 16) + 1]>>
    ELSE <<c>>

RECURSIVE JsonEscape(_, _)
JsonEscape(s, i) ==
    IF i > Len(s) THEN <<>> ELSE JsonEscapeChar(s[i]) \o JsonEscape(s, i + 1)

RECURSIVE JsonEntries(_, _)
JsonEntries(ps, i) ==
    IF i > Len(ps) THEN <<>>
    ELSE (IF i > 1 THEN <<",">> ELSE <<>>)
         \o EntryOpen \o JsonEscape(ps[i], 1) \o EntryClose
         \o JsonEntries(ps, i + 1)

\* json!({"files": [{"path": p}, ...]}).to_string()
ManifestJson(ps) == ManifestOpen \o JsonEntries(ps, 1) \o ManifestClose

\* "append manifest": computed from response.files, then pushed
append_manifest(fs) == Append(fs, File(ManifestPath, ManifestJson(Paths(fs))))

---------------------------------------------------------------------------
(* Inputs of a packaging run.                                              *)

\* most blocks a model output is written from
MaxBlocks == 2

SrcMainX ==
    <<"s", "r", "c", "/", "m", "a", "i", "n", ".", "x">>
SrcUtilX ==
    <<"s", "r", "c", "/", "u", "t", "i", "l", ".", "x">>
DotSlashSrcLibRs ==
    <<".", "/", "s", "r", "c", "/", "l", "i", "b", ".", "r", "s">>
ParentX ==
    <<".", ".", "/", "x">>
DocsGuideMd ==
    <<"d", "o", "c", "s", "/", "g", "u", "i", "d", "e", ".", "m", "d">>
FormFeedPath ==
    <<"a", "\f", "b">>
HeaderPrefix ==
    <<"#", "#", "#", " ", "F", "I", "L", "E", ":", " ">>
FenceOpen ==
    <<BQ, BQ, BQ, "r", "s">>
BodyA ==
    <<"A">>
BodyB ==
    <<"B">>
BodyHi ==
    <<"#", " ", "H", "i">>
Blank ==
    <<" ", " ">>

LF == <<"\n">>
CRLF == <<"\r", "\n">>

\* the kinds of block a model output is written from: the path its header
\* declares, the way its body is laid out, and the body
BlockKinds ==
    { [path |-> SrcMainX,         style |-> "fenced", body |-> BodyA],
      [path |-> SrcMainX,         style |-> "fenced", body |-> BodyB],
      [path |-> SrcMainX,         style |-> "open",   body |-> BodyA],
      [path |-> ReadmeMd,         style |-> "fenced", body |-> BodyHi],
      [path |-> DocsGuideMd,      style |-> "fenced", body |-> BodyHi],
      [path |-> ParentX,          style |-> "fenced", body |-> BodyA],
      [path |-> DotSlash,         style |-> "plain",  body |-> BodyA],
      [path |-> ManifestPath,     style |-> "plain",  body |-> BodyA],
      [path |-> CargoToml,        style |-> "fenced", body |-> BodyB],
      [path |-> DotSlashSrcLibRs, style |-> "crlf",   body |-> BodyB],
      [path |-> SrcUtilX,         style |-> "plain",  body |-> Blank],
      [path |-> FormFeedPath,     style |-> "plain",  body |-> BodyA] }

\* the text of one block
BlockText(k) ==
    LET nl == IF k.style = "crlf" THEN CRLF ELSE LF
        header == HeaderPrefix \o k.path \o nl
    IN  IF k.style = "plain" THEN header \o k.body \o nl
        ELSE IF k.style = "open" THEN header \o FenceOpen \o nl \o k.body \o nl
        ELSE header \o FenceOpen \o nl \o k.body \o nl \o Fence \o nl

RECURSIVE OutputText(_, _)
OutputText(g, i) ==
    IF i > Len(g) THEN <<>> ELSE BlockText(g[i]) \o OutputText(g, i + 1)

BlockSeqs == UNION {[1..n -> BlockKinds] : n \in 0..MaxBlocks}

InfraTemplates ==
    {Plan[i].candidates[k] : i \in 1..Len(Plan), k \in 1..4}
BootstrapTemplates ==
    {ServiceFiles[k].tpl : k \in 1..Len(ServiceFiles)}
        \cup {LibraryFiles[k].tpl : k \in 1..Len(LibraryFiles)}
        \cup {CliFiles[k].tpl : k \in 1..Len(CliFiles)}
\* the templates ensure_required_templates asks for
RequiredTemplates ==
    {"rust/Cargo.toml.template", "rust/Makefile.template",
     "rust/README.md.template", "rust/instructions/rust_rules.tera",
     "rust/prompt_templates/generation.tera",
     "rust/prompt_templates/review.tera"}

AllTemplates == InfraTemplates \cup BootstrapTemplates \cup RequiredTemplates

Range(q) == {q[k] : k \in 1..Len(q)}

\* every template but the first candidate of each infrastructure output and
\* one template of each bootstrap list
WithoutFirstCandidates ==
    AllTemplates \ ({Plan[i].candidates[1] : i \in 1..Len(Plan)}
                        \cup {"rust/bootstrap/cli/lib.rs.tera",
                              "rust/bootstrap/library/tests_lib.rs.tera",
                              "rust/bootstrap/service/routes.rs.tera"})

\* every template but the first .gitignore candidate and one template of
\* each bootstrap list
WithoutFirstGitignore ==
    AllTemplates \ {"rust/gitignore.template",
                    "rust/bootstrap/cli/lib.rs.tera",
                    "rust/bootstrap/library/tests_lib.rs.tera",
                    "rust/bootstrap/service/routes.rs.tera"}

\* the required templates, the last .gitignore candidate and one bootstrap
\* template
FewTemplates ==
    RequiredTemplates
        \cup {"shared/gitignore.tera", "rust/bootstrap/cli/main.rs.tera"}

\* the template sets Tera::new may load from the templates directory; the
\* first four hold the required templates, the others do not
TeraSets ==
    { AllTemplates,
      AllTemplates \ Range(GitignoreCandidates),
      WithoutFirstGitignore,
      FewTemplates,
      AllTemplates \ Range(CargoCandidates),
      AllTemplates \ Range(MakefileCandidates),
      AllTemplates \ Range(ReadmeCandidates),
      WithoutFirstCandidates,
      {"shared/Cargo.toml.tera", "shared/Makefile.template",
       "rust/README.md.tera", "rust/bootstrap/cli/main.rs.tera"} }

\* the templates whose render fails, when the instance holds them
FailingSets ==
    { {},
      {"rust/Cargo.toml.template", "rust/README.md.tera"},
      {"rust/gitignore.template", "rust/bootstrap/service/lib.rs.tera",
       "rust/bootstrap/cli/main.rs.tera",
       "rust/bootstrap/library/tests_lib.rs.tera"},
      {"rust/Makefile.tera", "rust/gitignore.tera"} }

\* the Tera instances: every template set with all renders succeeding, and
\* three of them with each set of failing templates
TeraInstances ==
    {[names |-> n, failing |-> {}] : n \in TeraSets}
        \cup {[names |-> n, failing |-> b \cap n] :
                n \in {AllTemplates, WithoutFirstGitignore,
                       WithoutFirstCandidates},
                b \in FailingSets}

CliType ==
    <<"c", "l", "i">>
MixedCaseService ==
    <<"S", "e", "r", "v", "i", "c", "e">>

ProjectTypes == {ServiceType, LibraryType, CliType, MixedCaseService}

\* what handle_generate returned: nothing yet, Ok(response), or
\* Err(status) with the text its status message starts with
NoReturn == [tag |-> "None", status |-> "", files |-> <<>>]
ReturnOk(fs) == [tag |-> "Ok", status |-> "", files |-> fs]
ReturnErr(status) == [tag |-> "Err", status |-> status, files |-> <<>>]

\* handle_generate from `let mut response` to its return, which no await
\* interrupts: the three packaging stages and the manifest
handle_generate_packaging(t, pt, out) ==
    LET code == package_code_files(out, <<>>)
        infra == package_infrastructure_files(t, code.files)
        boot == package_bootstrap_files(t, pt, infra.val)
    IN  IF ~infra.ok
        THEN ReturnErr("Failed to package infrastructure files")
        ELSE IF code.count # 0
        THEN ReturnOk(append_manifest(infra.val))
        ELSE IF ~boot.ok
        THEN ReturnErr("Failed to package bootstrap files")
        ELSE ReturnOk(append_manifest(boot.files))

\* the second call: not started, suspended in an await of
\* llm_client.generate, or returned
OtherIdle == [pc |-> "idle", project_type |-> <<>>, ret |-> NoReturn]

\* what the requests of the second call hold, and what its provider answers
OtherTypes == {LibraryType}
OtherAnswers ==
    {<<>>, <<[path |-> SrcMainX, style |-> "fenced", body |-> BodyA]>>}

\* the provider answers of the first call in a run with a second call: the
\* blocks of the end-to-end scenario
BesideKinds ==
    { [path |-> SrcMainX, style |-> "fenced", body |-> BodyA],
      [path |-> ReadmeMd, style |-> "fenced", body |-> BodyHi] }
BlockSeqsBeside == UNION {[1..n -> BesideKinds] : n \in 0..MaxBlocks}

---------------------------------------------------------------------------
(* server.rs: RustPluginServicer::new, then one call of handle_generate    *)

\* ensure_required_templates(&tera) returns Ok
ensure_required_templates(t) == RequiredTemplates \subseteq get_template_names(t)

SliceIdle == slice_in = <<>> /\ slice_out = <<>>

InfraIdle == infra_files = <<>> /\ infra_out = <<>>

HarnessIdle ==
    /\ raw_path = <<>> /\ path_result = None
    /\ san_path = <<>> /\ san_in = <<>> /\ san_once = <<>> /\ san_twice = <<>>
    /\ SliceIdle
    /\ InfraIdle

RunIdle ==
    /\ other = OtherIdle
    /\ llm_output = <<>> /\ gen = <<>> /\ project_type = <<>>
    /\ tera = [names |-> {}, failing |-> {}]
    /\ files = <<>> /\ code_count = 0 /\ bootstrapped = FALSE
    /\ rendered_count = 0 /\ ret = NoReturn

\* the process before RustPluginServicer::new(): Tera::new has the
\* templates directory to load
Init ==
    /\ pc = "new"
    /\ tera \in TeraInstances
    /\ other = OtherIdle
    /\ llm_output = <<>> /\ gen = <<>> /\ project_type = <<>>
    /\ files = <<>>
    /\ code_count = 0
    /\ bootstrapped = FALSE
    /\ rendered_count = 0
    /\ ret = NoReturn
    /\ HarnessIdle

\* RustPluginServicer::new() returns Ok(Self { tera })
NewOk ==
    /\ pc = "new"
    /\ ensure_required_templates(tera)
    /\ pc' = "serving"
    /\ UNCHANGED <<other, llm_output, gen, tera, project_type, files,
                   code_count,
                   bootstrapped, rendered_count, ret, raw_path, path_result,
                   san_path, san_in, san_once, san_twice, slice_in, slice_out,
                   infra_files, infra_out>>

\* RustPluginServicer::new() returns Err("Missing required templates: .."):
\* main returns and no request is served
NewErr ==
    /\ pc = "new"
    /\ ~ensure_required_templates(tera)
    /\ pc' = "exit"
    /\ UNCHANGED <<other, llm_output, gen, tera, project_type, files,
                   code_count,
                   bootstrapped, rendered_count, ret, raw_path, path_result,
                   san_path, san_in, san_once, san_twice, slice_in, slice_out,
                   infra_files, infra_out>>

\* toml::from_str(&req.spec_toml_content) fails: the request's
\* specification does not parse
SpecParseErr ==
    /\ pc = "serving"
    /\ ret' = ReturnErr("Invalid spec.toml")
    /\ pc' = "done"
    /\ UNCHANGED <<other, llm_output, gen, tera, project_type, files,
                   code_count,
                   bootstrapped, rendered_count, raw_path, path_result,
                   san_path, san_in, san_once, san_twice, slice_in, slice_out,
                   infra_files, infra_out>>

\* req.llm_config is None
LlmConfigErr ==
    /\ pc = "serving"
    /\ ret' = ReturnErr("LLMConfig is required")
    /\ pc' = "done"
    /\ UNCHANGED <<other, llm_output, gen, tera, project_type, files,
                   code_count,
                   bootstrapped, rendered_count, raw_path, path_result,
                   san_path, san_in, san_once, san_twice, slice_in, slice_out,
                   infra_files, infra_out>>

\* prompt_builder::render_prompt(..) returns Err
PromptErr ==
    /\ pc = "serving"
    /\ ret' = ReturnErr("Failed to render prompt")
    /\ pc' = "done"
    /\ UNCHANGED <<other, llm_output, gen, tera, project_type, files,
                   code_count,
                   bootstrapped, rendered_count, raw_path, path_result,
                   san_path, san_in, san_once, san_twice, slice_in, slice_out,
                   infra_files, infra_out>>

\* llm_client.generate: the provider is neither openai nor gemini, and the
\* call returns Err without sending anything
UnsupportedProviderErr ==
    /\ pc = "serving"
    /\ ret' = ReturnErr("LLM generation failed: Unsupported LLM provider")
    /\ pc' = "done"
    /\ UNCHANGED <<other, llm_output, gen, tera, project_type, files,
                   code_count,
                   bootstrapped, rendered_count, raw_path, path_result,
                   san_path, san_in, san_once, san_twice, slice_in, slice_out,
                   infra_files, infra_out>>

\* handle_generate up to builder.send().await: the specification is
\* parsed, the request has its llm_config, the prompt is rendered and the
\* request to the provider is sent; the call is suspended
SendRequest ==
    /\ pc = "serving"
    /\ project_type' \in ProjectTypes
    /\ pc' = "sending"
    /\ UNCHANGED <<other, llm_output, gen, tera, files, code_count,
                   bootstrapped, rendered_count, ret, raw_path, path_result,
                   san_path, san_in, san_once, san_twice, slice_in, slice_out,
                   infra_files, infra_out>>

\* builder.send().await?.error_for_status()? returns Err: the request
\* failed or the provider answered with an error status
SendErr ==
    /\ pc = "sending"
    /\ ret' = ReturnErr("LLM generation failed")
    /\ pc' = "done"
    /\ UNCHANGED <<other, llm_output, gen, tera, project_type, files,
                   code_count,
                   bootstrapped, rendered_count, raw_path, path_result,
                   san_path, san_in, san_once, san_twice, slice_in, slice_out,
                   infra_files, infra_out>>

\* builder.send().await?.error_for_status()? is Ok; the call is suspended
\* in response.json().await
SendOk ==
    /\ pc = "sending"
    /\ pc' = "reading"
    /\ UNCHANGED <<other, llm_output, gen, tera, project_type, files,
                   code_count,
                   bootstrapped, rendered_count, ret, raw_path, path_result,
                   san_path, san_in, san_once, san_twice, slice_in, slice_out,
                   infra_files, infra_out>>

\* response.json().await? returns Err: the body is no JSON document
ReadErr ==
    /\ pc = "reading"
    /\ ret' = ReturnErr("LLM generation failed")
    /\ pc' = "done"
    /\ UNCHANGED <<other, llm_output, gen, tera, project_type, files,
                   code_count,
                   bootstrapped, rendered_count, raw_path, path_result,
                   san_path, san_in, san_once, san_twice, slice_in, slice_out,
                   infra_files, infra_out>>

\* parse_response returns Err: the document holds no text where the
\* provider's answers have it
ParseResponseErr ==
    /\ pc = "reading"
    /\ ret' = ReturnErr("LLM generation failed: Failed to parse LLM response")
    /\ pc' = "done"
    /\ UNCHANGED <<other, llm_output, gen, tera, project_type, files,
                   code_count,
                   bootstrapped, rendered_count, raw_path, path_result,
                   san_path, san_in, san_once, san_twice, slice_in, slice_out,
                   infra_files, infra_out>>

\* llm_client.generate(&prompt).await returns Ok(llm_output);
\* let mut response = GenerateResponse::default()
ReceiveOutput ==
    /\ pc = "reading"
    /\ gen' \in BlockSeqs
    /\ other.pc # "idle" => gen' \in BlockSeqsBeside
    /\ llm_output' = OutputText(gen', 1)
    /\ files' = <<>>
    /\ pc' = "code"
    /\ UNCHANGED <<other, tera, project_type, code_count, bootstrapped,
                   rendered_count, ret, raw_path, path_result, san_path,
                   san_in, san_once, san_twice, slice_in, slice_out,
                   infra_files, infra_out>>

\* let code_count = package_code_files(&llm_output, &mut response);
PackageCode ==
    /\ pc = "code"
    /\ LET r == package_code_files(llm_output, files)
       IN  /\ files' = r.files
           /\ code_count' = r.count
    /\ pc' = "infra"
    /\ UNCHANGED <<other, llm_output, gen, tera, project_type, bootstrapped,
                   rendered_count, ret, raw_path, path_result, san_path,
                   san_in, san_once, san_twice,
                   slice_in, slice_out,
                   infra_files, infra_out>>

\* package_infrastructure_files(..) returned Ok(())
InfraOk ==
    /\ pc = "infra"
    /\ LET r == package_infrastructure_files(tera, files)
       IN  /\ r.ok
           /\ files' = r.val
    /\ pc' = IF code_count = 0 THEN "bootstrap" ELSE "manifest"
    /\ UNCHANGED <<other, llm_output, gen, tera, project_type, code_count,
                   bootstrapped, rendered_count, ret, raw_path, path_result,
                   san_path, san_in, san_once, san_twice,
                   slice_in, slice_out,
                   infra_files, infra_out>>

\* package_infrastructure_files(..) returned Err: map_err(..)? returns
\* Err(Status::internal(..)) and the response is dropped
InfraErr ==
    /\ pc = "infra"
    /\ LET r == package_infrastructure_files(tera, files)
       IN  /\ ~r.ok
           /\ files' = r.val
    /\ ret' = ReturnErr("Failed to package infrastructure files")
    /\ pc' = "done"
    /\ UNCHANGED <<other, llm_output, gen, tera, project_type, code_count,
                   bootstrapped, rendered_count, raw_path, path_result,
                   san_path, san_in, san_once, san_twice,
                   slice_in, slice_out,
                   infra_files, infra_out>>

\* if code_count == 0 { package_bootstrap_files(..) returned Ok(n) }
BootstrapOk ==
    /\ pc = "bootstrap"
    /\ LET r == package_bootstrap_files(tera, project_type, files)
       IN  /\ r.ok
           /\ files' = r.files
           /\ rendered_count' = r.count
    /\ bootstrapped' = TRUE
    /\ pc' = "manifest"
    /\ UNCHANGED <<other, llm_output, gen, tera, project_type, code_count, ret,
                   raw_path, path_result, san_path, san_in, san_once,
                   san_twice, slice_in, slice_out,
                   infra_files, infra_out>>

\* package_bootstrap_files(..) returned Err: map_err(..)? returns
\* Err(Status::internal(..)) and the response is dropped
BootstrapErr ==
    /\ pc = "bootstrap"
    /\ LET r == package_bootstrap_files(tera, project_type, files)
       IN  /\ ~r.ok
           /\ files' = r.files
    /\ bootstrapped' = TRUE
    /\ ret' = ReturnErr("Failed to package bootstrap files")
    /\ pc' = "done"
    /\ UNCHANGED <<other, llm_output, gen, tera, project_type, code_count,
                   rendered_count, raw_path, path_result, san_path, san_in,
                   san_once, san_twice, slice_in, slice_out,
                   infra_files, infra_out>>

\* append manifest; Ok(response)
Manifest ==
    /\ pc = "manifest"
    /\ files' = append_manifest(files)
    /\ ret' = ReturnOk(files')
    /\ pc' = "done"
    /\ UNCHANGED <<other, llm_output, gen, tera, project_type, code_count,
                   bootstrapped, rendered_count, raw_path, path_result,
                   san_path, san_in, san_once, san_twice,
                   slice_in, slice_out,
                   infra_files, infra_out>>

\* The second call of handle_generate, on the same servicer (&self, so the
\* same Tera instance), started while the first call has not passed its
\* awaits.  Each of its actions is one poll of its future: from the call or
\* an await that resumes to the next await or the return.

\* first poll, req.llm_config is None: returns Err
OtherLlmConfigErr ==
    /\ pc \in {"serving", "sending", "reading"}
    /\ other.pc = "idle"
    /\ other' = [pc |-> "done", project_type |-> <<>>,
                 ret |-> ReturnErr("LLMConfig is required")]
    /\ UNCHANGED <<pc, llm_output, gen, tera, project_type, files, code_count,
                   bootstrapped, rendered_count, ret, raw_path, path_result,
                   san_path, san_in, san_once, san_twice, slice_in, slice_out,
                   infra_files, infra_out>>

\* first poll: up to builder.send().await, where it is suspended
OtherSendRequest ==
    /\ pc \in {"serving", "sending", "reading"}
    /\ other.pc = "idle"
    /\ \E pt \in OtherTypes :
          other' = [pc |-> "sending", project_type |-> pt, ret |-> NoReturn]
    /\ UNCHANGED <<pc, llm_output, gen, tera, project_type, files, code_count,
                   bootstrapped, rendered_count, ret, raw_path, path_result,
                   san_path, san_in, san_once, san_twice, slice_in, slice_out,
                   infra_files, infra_out>>

\* send().await resumes with Ok: suspended in response.json().await
OtherSendOk ==
    /\ other.pc = "sending"
    /\ other' = [other EXCEPT !.pc = "reading"]
    /\ UNCHANGED <<pc, llm_output, gen, tera, project_type, files, code_count,
                   bootstrapped, rendered_count, ret, raw_path, path_result,
                   san_path, san_in, san_once, san_twice, slice_in, slice_out,
                   infra_files, infra_out>>

\* send().await or response.json().await resumes with Err: returns Err
OtherGenerateErr ==
    /\ other.pc \in {"sending", "reading"}
    /\ other' = [other EXCEPT !.pc = "done",
                              !.ret = ReturnErr("LLM generation failed")]
    /\ UNCHANGED <<pc, llm_output, gen, tera, project_type, files, code_count,
                   bootstrapped, rendered_count, ret, raw_path, path_result,
                   san_path, san_in, san_once, san_twice, slice_in, slice_out,
                   infra_files, infra_out>>

\* response.json().await resumes with the provider's answer: the call runs
\* to its return
OtherReturn ==
    /\ other.pc = "reading"
    /\ \E g \in OtherAnswers :
          other' = [other EXCEPT
                      !.pc = "done",
                      !.ret = handle_generate_packaging(
                                  tera, other.project_type, OutputText(g, 1))]
    /\ UNCHANGED <<pc, llm_output, gen, tera, project_type, files, code_count,
                   bootstrapped, rendered_count, ret, raw_path, path_result,
                   san_path, san_in, san_once, san_twice, slice_in, slice_out,
                   infra_files, infra_out>>

Next ==
    \/ NewOk
    \/ NewErr
    \/ SpecParseErr
    \/ LlmConfigErr
    \/ PromptErr
    \/ UnsupportedProviderErr
    \/ SendRequest
    \/ SendErr
    \/ SendOk
    \/ ReadErr
    \/ ParseResponseErr
    \/ ReceiveOutput
    \/ PackageCode
    \/ InfraOk
    \/ InfraErr
    \/ BootstrapOk
    \/ BootstrapErr
    \/ Manifest
    \/ OtherLlmConfigErr
    \/ OtherSendRequest
    \/ OtherSendOk
    \/ OtherGenerateErr
    \/ OtherReturn

Spec == Init /\ [][Next]_vars

---------------------------------------------------------------------------
(* sanitize_path on its own: every raw path written from at most           *)
(* MaxPathPieces pieces, and the paths the documentation names.            *)

MaxPathPieces == 3

EtcPasswd ==
    <<"/", "e", "t", "c", "/", "p", "a", "s", "s", "w", "d">>
TraversalX ==
    <<".", ".", "/", ".", ".", "/", "x">>
TemplatesEvil ==
    <<"t", "e", "m", "p", "l", "a", "t", "e", "s", "/", "e", "v", "i", "l",
    ".", "t", "e", "r", "a">>
WhitespaceOnly ==
    <<" ", "\t", " ">>

PathPieces ==
    { <<"/">>, <<".">>, <<".", ".">>, <<"x">>, <<" ">>, <<"\f">>, <<"\\">>,
      <<"t", "e", "m", "p", "l", "a", "t", "e", "s">> }

RECURSIVE Concat(_, _)
Concat(q, i) == IF i > Len(q) THEN <<>> ELSE q[i] \o Concat(q, i + 1)

PathExamples ==
    {EtcPasswd, TraversalX, TemplatesEvil, <<>>, WhitespaceOnly,
     DotSlashSrcLibRs}

PathInputs ==
    PathExamples
        \cup {Concat(q, 1) :
                q \in UNION {[1..n -> PathPieces] : n \in 0..MaxPathPieces}}

InitPath ==
    /\ pc = "path"
    /\ raw_path \in PathInputs
    /\ path_result = None
    /\ san_path = <<>> /\ san_in = <<>> /\ san_once = <<>> /\ san_twice = <<>>
    /\ SliceIdle
    /\ InfraIdle
    /\ RunIdle

ApplyPath ==
    /\ pc = "path"
    /\ path_result' = sanitize_path(raw_path)
    /\ pc' = "path_done"
    /\ UNCHANGED <<other, llm_output, gen, tera, project_type, files,
                   code_count,
                   bootstrapped, rendered_count, ret, raw_path, san_path,
                   san_in, san_once, san_twice,
                   slice_in, slice_out,
                   infra_files, infra_out>>

NextPath == ApplyPath

SpecPath == InitPath /\ [][NextPath]_vars

---------------------------------------------------------------------------
(* sanitize_nonmarkdown_output on its own, applied once and twice: every   *)
(* content written from at most MaxContentPieces pieces, for a             *)
(* documentation-like path and another one.                                *)

MaxContentPieces == 4

MarkerLine ==
    <<"#", "#", "#", " ", "F", "I", "L", "E", ":", " ", "a">>
NotesMD ==
    <<"n", "o", "t", "e", "s", ".", "M", "D">>
MainRs ==
    <<"m", "a", "i", "n", ".", "r", "s">>

ContentPieces ==
    { <<BOM>>, LF, CRLF, <<"\r">>, Fence, FenceOpen, <<"x">>, MarkerLine }

\* a body fenced twice, and a body under two marker lines
DoubleFenced ==
    Fence \o LF \o Fence \o LF \o <<"x">> \o LF \o Fence \o LF \o Fence
DoubleMarker == MarkerLine \o LF \o MarkerLine \o LF \o <<"x">>

ContentInputs ==
    {DoubleFenced, DoubleMarker}
        \cup {Concat(q, 1) :
                q \in UNION {[1..n -> ContentPieces] :
                                n \in 0..MaxContentPieces}}

InitSan ==
    /\ pc = "san"
    /\ san_path \in {NotesMD, MainRs}
    /\ san_in \in ContentInputs
    /\ san_once = <<>> /\ san_twice = <<>>
    /\ raw_path = <<>> /\ path_result = None
    /\ SliceIdle
    /\ InfraIdle
    /\ RunIdle

ApplySan ==
    /\ pc = "san"
    /\ san_once' = sanitize_nonmarkdown_output(san_path, san_in)
    /\ san_twice' = sanitize_nonmarkdown_output(san_path, san_once')
    /\ pc' = "san_done"
    /\ UNCHANGED <<other, llm_output, gen, tera, project_type, files,
                   code_count,
                   bootstrapped, rendered_count, ret, raw_path, path_result,
                   san_path, san_in, slice_in, slice_out,
                   infra_files, infra_out>>

NextSan == ApplySan

SpecSan == InitSan /\ [][NextSan]_vars

---------------------------------------------------------------------------
(* slice_file_blocks on its own, applied to two model outputs that differ  *)
(* only in the closing fence line of their first block: one closes the     *)
(* fence, the other has one of CloseForms in its place.  At most           *)
(* MaxLaterBlocks blocks follow the first one.                             *)

MaxLaterBlocks == 2

Tildes == <<"~", "~", "~">>

\* what stands where the first block's closing fence line belongs: the
\* fence, nothing, and malformed fences
CloseForms ==
    { Fence \o LF,
      <<>>,
      <<BQ, BQ>> \o LF,
      Fence \o <<BQ>> \o LF,
      Fence \o <<"x">> \o LF,
      <<" ">> \o Fence \o LF,
      Tildes \o LF,
      Fence \o CRLF }

FirstPaths == {SrcMainX, DocsGuideMd, ParentX}

\* the first block: header, opening fence, body, and close in the place of
\* the closing fence line
FirstBlockText(path, close) ==
    HeaderPrefix \o path \o LF \o FenceOpen \o LF \o BodyA \o LF \o close

SliceInputs ==
    [first : FirstPaths, close : CloseForms,
     later : UNION {[1..n -> BlockKinds] : n \in 1..MaxLaterBlocks}]

InitSlice ==
    /\ pc = "slice"
    /\ slice_in \in SliceInputs
    /\ slice_out = <<>>
    /\ InfraIdle
    /\ raw_path = <<>> /\ path_result = None
    /\ san_path = <<>> /\ san_in = <<>> /\ san_once = <<>> /\ san_twice = <<>>
    /\ RunIdle

ApplySlice ==
    /\ pc = "slice"
    /\ slice_out' =
         [closed |-> slice_file_blocks(
                        FirstBlockText(slice_in.first, Fence \o LF)
                            \o OutputText(slice_in.later, 1)),
          other  |-> slice_file_blocks(
                        FirstBlockText(slice_in.first, slice_in.close)
                            \o OutputText(slice_in.later, 1))]
    /\ pc' = "slice_done"
    /\ UNCHANGED <<other, llm_output, gen, tera, project_type, files,
                   code_count,
                   bootstrapped, rendered_count, ret, raw_path, path_result,
                   san_path, san_in, san_once, san_twice, slice_in,
                   infra_files, infra_out>>

NextSlice == ApplySlice

SpecSlice == InitSlice /\ [][NextSlice]_vars

---------------------------------------------------------------------------
(* package_infrastructure_files on its own: the function is public and     *)
(* takes any Tera instance, the ones RustPluginServicer::new refuses       *)
(* included, and any response.                                             *)

InfraResponses ==
    { <<>>,
      <<File(CargoToml, BodyB)>>,
      <<File(SrcMainX, BodyA), File(ReadmeMd, BodyHi)>>,
      <<File(GitIgnore, BodyA), File(SrcMainX, BodyA)>> }

InitInfra ==
    /\ pc = "pkg_infra"
    /\ tera \in TeraInstances
    /\ infra_files \in InfraResponses
    /\ infra_out = <<>>
    /\ other = OtherIdle
    /\ llm_output = <<>> /\ gen = <<>> /\ project_type = <<>>
    /\ files = <<>> /\ code_count = 0 /\ bootstrapped = FALSE
    /\ rendered_count = 0 /\ ret = NoReturn
    /\ raw_path = <<>> /\ path_result = None
    /\ san_path = <<>> /\ san_in = <<>> /\ san_once = <<>> /\ san_twice = <<>>
    /\ slice_in = <<>> /\ slice_out = <<>>

ApplyInfra ==
    /\ pc = "pkg_infra"
    /\ infra_out' = package_infrastructure_files(tera, infra_files)
    /\ pc' = "pkg_infra_done"
    /\ UNCHANGED <<other, llm_output, gen, tera, project_type, files,
                   code_count,
                   bootstrapped, rendered_count, ret, raw_path, path_result,
                   san_path, san_in, san_once, san_twice, slice_in, slice_out,
                   infra_files>>

\* package_infrastructure_files called on its own, or by handle_generate
InitInfraCalls == Init \/ InitInfra

NextInfraCalls == Next \/ ApplyInfra

SpecInfraCalls == InitInfraCalls /\ [][NextInfraCalls]_vars

---------------------------------------------------------------------------
(* Properties.                                                             *)

Succeeded == pc = "done" /\ ret.tag = "Ok"

\* handle_generate has returned from a run that reached the packaging
\* stages (it did not return before `let mut response`)
PackagingRunDone ==
    /\ pc = "done"
    /\ ret.status \in {"", "Failed to package infrastructure files",
                       "Failed to package bootstrap files"}

NoDuplicatePaths(fs) ==
    \A i, j \in 1..Len(fs) : i # j => fs[i].path # fs[j].path

\* C1: in the artifact a successful run returns, no two entries have the
\* same path, the manifest entry .spex_manifest.json included.
C1_ArtifactPathsUnique == Succeeded => NoDuplicatePaths(ret.files)

\* C2: in a successful run the manifest entry's content lists exactly the
\* paths of the entries that were there before it was added, in artifact
\* order, and the manifest's own path is not in that list.
C2_ManifestListsEarlierEntriesOnly ==
    Succeeded =>
        LET n == Len(ret.files)
            earlier == SubSeq(ret.files, 1, n - 1)
        IN  /\ n >= 1
            /\ ret.files[n].path = ManifestPath
            /\ ret.files[n].content = ManifestJson(Paths(earlier))
            /\ \A k \in 1..(n - 1) : earlier[k].path # ManifestPath

\* the normalization of a raw path: backslashes to "/", trim, one leading
\* "./" dropped
NormalizedPath(raw) ==
    LET p0 == trim([k \in 1..Len(raw) |->
                       IF raw[k] = "\\" THEN "/" ELSE raw[k]])
    IN  IF Len(p0) >= 2 /\ p0[1] = "." /\ p0[2] = "/"
        THEN SubSeq(p0, 3, Len(p0)) ELSE p0

\* C3: every path sanitize_path accepts is the normalized raw path, and
\* that path is non-empty, not absolute, not under templates/ and has no
\* ".." component.
C3_AcceptedPathIsSafe ==
    (pc = "path_done" /\ path_result.some) =>
        /\ path_result.val = NormalizedPath(raw_path)
        /\ path_result.val # <<>>
        /\ ~is_absolute(path_result.val)
        /\ ~starts_with(path_result.val, TemplatesPrefix)
        /\ ~has_traversal(path_result.val)

\* C4: sanitize_path rejects /etc/passwd, ../../x, templates/evil.tera, the
\* empty path and a whitespace-only path, and accepts ./src/lib.rs as
\* src/lib.rs.
C4_PathGuardExamples ==
    pc = "path_done" =>
        /\ raw_path \in {EtcPasswd, TraversalX, TemplatesEvil, <<>>,
                         WhitespaceOnly} => ~path_result.some
        /\ raw_path = DotSlashSrcLibRs => path_result = Some(SrcLibRs)

C4_Witness ==
    /\ pc = "path_done"
    /\ raw_path = DotSlashSrcLibRs
    /\ path_result = Some(SrcLibRs)

\* C5: sanitize_nonmarkdown_output is idempotent: applying it to its own
\* result, for the same path, changes nothing.
C5_SanitizeIdempotent == pc = "san_done" => san_twice = san_once

InfraPaths == {CargoToml, Makefile, ReadmeMd, GitIgnore}
BootstrapPaths ==
    {SrcMainRs, SrcLibRs, SrcRoutesRs, TestsHealthRs, TestsLibRs, TestsCliRs}

MainA == [path |-> SrcMainX, style |-> "fenced", body |-> BodyA]
MainB == [path |-> SrcMainX, style |-> "fenced", body |-> BodyB]
ReadmeHi == [path |-> ReadmeMd, style |-> "fenced", body |-> BodyHi]
RejectedA == [path |-> ParentX, style |-> "fenced", body |-> BodyA]

\* the indices of the first block of each path, in order
FirstOccurrences(b) ==
    SelectSeq([i \in 1..Len(b) |-> i],
              LAMBDA i : \A j \in 1..(i - 1) : b[j].path # b[i].path)

LastWithPath(b, path) == Max({j \in 1..Len(b) : b[j].path = path})

\* what a sequence of upserts of the blocks b into an empty registry leaves:
\* one entry per path, at the place of its first block, with the content of
\* its last block
UpsertedOnce(b) ==
    LET first == FirstOccurrences(b)
    IN  [k \in 1..Len(first) |->
            File(b[first[k]].path,
                 b[LastWithPath(b, b[first[k]].path)].content)]

C6_State ==
    /\ pc = "infra" => files = UpsertedOnce(slice_file_blocks(llm_output))
    /\ (pc = "infra" /\ gen = <<MainA, MainB>>)
           => files = <<File(SrcMainX, BodyB)>>
    /\ pc \in {"infra", "bootstrap", "manifest"} => NoDuplicatePaths(files)

C6_Step ==
    \A k \in 1..Len(files) :
        /\ k <= Len(files')
        /\ files'[k].path = files[k].path
        /\ \/ files'[k].content = files[k].content
           \/ files[k].path \in InfraPaths \cup BootstrapPaths

\* C6: through the upserts of the extraction, infrastructure and bootstrap
\* stages an entry keeps its position, a path that is upserted again holds
\* the latest content, a new path goes to the end, and nothing is removed
\* or moved; two blocks headed src/main.x with bodies A then B leave one
\* entry, with content B, where the first one was.
C6_UpsertKeepsPositions == [](C6_State) /\ [][C6_Step]_vars

C6_Witness ==
    /\ pc = "infra"
    /\ gen = <<MainA, MainB>>
    /\ files = <<File(SrcMainX, BodyB)>>

HasCandidate(candidates) ==
    \E k \in 1..Len(candidates) : candidates[k] \in tera.names

\* the first candidate of the list that exists is one whose render fails
FirstFails(candidates) ==
    \E k \in 1..Len(candidates) :
        /\ candidates[k] \in tera.names \cap tera.failing
        /\ \A e \in 1..(k - 1) : candidates[e] \notin tera.names

RequiredLists == {CargoCandidates, MakefileCandidates, ReadmeCandidates}

\* package_infrastructure_files has what it needs to return Ok
InfraSucceeds ==
    \A c \in RequiredLists : HasCandidate(c) /\ ~FirstFails(c)

\* some template of the bootstrap list exists and fails to render
BootstrapFails ==
    \E j \in 1..Len(BootstrapFiles(project_type)) :
        BootstrapFiles(project_type)[j].tpl \in tera.names \cap tera.failing

\* no render the run performs fails
EveryRenderSucceeds ==
    /\ \A c \in RequiredLists : ~FirstFails(c)
    /\ code_count = 0 => ~BootstrapFails

RequiredPresent ==
    /\ HasCandidate(CargoCandidates)
    /\ HasCandidate(MakefileCandidates)
    /\ HasCandidate(ReadmeCandidates)

ContentAt(fs, path) ==
    {fs[k].content : k \in {j \in 1..Len(fs) : fs[j].path = path}}

\* C7: with no candidate template for Cargo.toml, Makefile or README.md
\* package_infrastructure_files fails, and a run in which it fails returns
\* an error and no artifact (an error never comes with files); with the
\* .gitignore candidates missing and nothing else wrong (the required
\* outputs have a candidate and no render fails) the function succeeds,
\* a run that reaches the packaging stages succeeds, and the .gitignore
\* entry holds the built-in default text verbatim.
C7_MissingTemplates ==
    /\ pc = "pkg_infra_done" =>
        /\ ~RequiredPresent => ~infra_out.ok
        /\ (/\ RequiredPresent
            /\ ~HasCandidate(GitignoreCandidates)
            /\ \A c \in RequiredLists : ~FirstFails(c))
               => /\ infra_out.ok
                  /\ ContentAt(infra_out.val, GitIgnore) = {default_gitignore}
    /\ pc = "done" => (ret.tag = "Err" => ret.files = <<>>)
    /\ PackagingRunDone =>
        /\ ~InfraSucceeds => ret = ReturnErr("Failed to package infrastructure files")
        /\ (/\ RequiredPresent
            /\ ~HasCandidate(GitignoreCandidates)
            /\ EveryRenderSucceeds)
               => /\ ret.tag = "Ok"
                  /\ ContentAt(ret.files, GitIgnore) = {default_gitignore}

C7_Witness ==
    /\ pc = "pkg_infra_done"
    /\ ~HasCandidate(ReadmeCandidates)
    /\ ~infra_out.ok
    /\ \E k \in 1..Len(infra_out.val) : infra_out.val[k].path = CargoToml

DefaultArchetype(ptype) == ptype \notin {ServiceType, LibraryType}

\* C8 as stated: in a run that reaches the packaging stages, bootstrap runs
\* exactly when package_code_files accepted no block (and the
\* infrastructure stage succeeded), and for a project type that is neither
\* service nor library it produces 3 files.
C8_BootstrapCountIsListLength ==
    PackagingRunDone =>
        /\ bootstrapped <=> (code_count = 0 /\ InfraSucceeds)
        /\ (bootstrapped /\ DefaultArchetype(project_type))
               => rendered_count = Len(CliFiles)

ExistingTemplates(list) == {k \in 1..Len(list) : list[k].tpl \in tera.names}

\* C8, amended: in a run that reaches the packaging stages, bootstrap runs
\* exactly when package_code_files accepted no block (and the
\* infrastructure stage succeeded); for a project type that
\* is, ASCII case aside, neither service nor library, a bootstrap that
\* succeeds produces as many files as default-archetype templates exist: 3
\* when all three exist.
C8_BootstrapTrigger ==
    /\ bootstrapped => (code_count = 0 /\ pc \in {"manifest", "done"})
    /\ PackagingRunDone =>
        /\ bootstrapped <=> (code_count = 0 /\ InfraSucceeds)
        /\ (bootstrapped /\ ~BootstrapFails) <=> (code_count = 0 /\ ret.tag = "Ok")
        /\ (/\ bootstrapped
            /\ ret.tag = "Ok"
            /\ DefaultArchetype(to_ascii_lowercase(project_type)))
               => /\ rendered_count = Cardinality(ExistingTemplates(CliFiles))
                  /\ ExistingTemplates(CliFiles) = 1..3
                         => rendered_count = 3

C8_Witness ==
    /\ pc = "done"
    /\ bootstrapped
    /\ ret.tag = "Ok"
    /\ project_type = CliType
    /\ rendered_count = 3

\* a block laid out as the header line and a closed fence around the
\* body, or as the header line and the body alone
WellFormed(k) ==
    /\ k.style \in {"fenced", "crlf", "plain"}
    /\ sanitize_path(k.path).some

WellFormedDistinct(g) ==
    /\ \A i \in 1..Len(g) : WellFormed(g[i])
    /\ \A i, j \in 1..Len(g) :
          i # j => NormalizedPath(g[i].path) # NormalizedPath(g[j].path)

\* the block's own content, newline-normalized and without its fence
Unwrapped(k) == IF k.style = "plain" THEN k.body \o LF ELSE k.body

\* content c is what block k holds, unwrapped: the text of its body, or for
\* a white-space-only body any white-space-only text
HoldsUnwrapped(c, k) ==
    IF k.body = Blank
    THEN \A n \in 1..Len(c) : IsSpace(c[n])
    ELSE c = Unwrapped(k)

\* C9: N well-formed blocks with distinct valid paths give N
\* corresponding entries (besides the infrastructure and manifest entries),
\* each holding its block's content fence-unwrapped and newline-normalized;
\* README.md fenced around "# Hi" gives README.md -> "# Hi".
C9_EveryBlockUnwrapped ==
    (Succeeded /\ WellFormedDistinct(gen)) =>
        \A i \in 1..Len(gen) :
            \E k \in 1..Len(ret.files) :
                /\ ret.files[k].path = NormalizedPath(gen[i].path)
                /\ HoldsUnwrapped(ret.files[k].content, gen[i])

Accepted(g) == {i \in 1..Len(g) : sanitize_path(g[i].path).some}

AllSpace(t) == \A k \in 1..Len(t) : IsSpace(t[k])

\* C10: a block with a rejected path adds no entry and is not counted, and
\* the other blocks are packaged; a bootstrap file whose template is
\* missing is skipped and the others are rendered; neither fails the run
\* (a run that reaches the packaging stages succeeds whenever the required
\* infrastructure templates exist and no render fails); a header with an empty or whitespace-only body still
\* gives an entry.
C10_PerItemConditionsAbsorbed ==
    /\ pc # "code" =>
         /\ code_count = Cardinality(Accepted(gen))
         /\ \A i \in 1..Len(gen) :
              IF i \in Accepted(gen)
              THEN \E k \in 1..Len(files) :
                      /\ files[k].path = NormalizedPath(gen[i].path)
                      /\ gen[i].body = Blank => AllSpace(files[k].content)
              ELSE \A k \in 1..Len(files) : files[k].path # gen[i].path
    /\ (bootstrapped /\ ~BootstrapFails) =>
         LET list == BootstrapFiles(project_type)
         IN  /\ rendered_count = Cardinality(ExistingTemplates(list))
             /\ \A j \in 1..Len(list) :
                  ContentAt(files, list[j].path)
                    = IF list[j].tpl \in tera.names
                      THEN {<<list[j].tpl, "\n">>} ELSE {}
    /\ (PackagingRunDone /\ RequiredPresent /\ EveryRenderSucceeds)
           => ret.tag = "Ok"

C10_Witness ==
    /\ Succeeded
    /\ gen = <<RejectedA, MainA>>
    /\ code_count = 1
    /\ Paths(ret.files)
         = <<SrcMainX, CargoToml, Makefile, ReadmeMd, GitIgnore, ManifestPath>>

CargoBlockB == [path |-> CargoToml, style |-> "fenced", body |-> BodyB]

\* the candidates of a list that may be used: the existing ones with every
\* earlier candidate absent
UsableCandidates(candidates) ==
    {candidates[k] : k \in {j \in 1..Len(candidates) :
        /\ candidates[j] \in tera.names
        /\ \A e \in 1..(j - 1) : candidates[e] \notin tera.names}}

\* what the entry at a plan item's path may hold
InfraContents(item) ==
    IF HasCandidate(item.candidates) /\ ~FirstFails(item.candidates)
    THEN {sanitize_nonmarkdown_output(item.out_path, Render(tera, c).val) :
            c \in UsableCandidates(item.candidates)}
    ELSE IF item.out_path = GitIgnore
         THEN {sanitize_nonmarkdown_output(GitIgnore, default_gitignore)}
         ELSE {}

\* C11: after a successful run each of Cargo.toml, Makefile, README.md and
\* .gitignore has an entry, and every entry at that path holds the
\* sanitized output of the first existing template of the path's candidate
\* list (for .gitignore the built-in default when none exists or the first
\* existing one fails to render), whatever the model output declared for
\* that path; a later candidate is used only when every earlier one is
\* absent.
C11_InfraFromFirstExistingTemplate ==
    Succeeded =>
        \A i \in 1..Len(Plan) :
            /\ Cardinality(InfraContents(Plan[i])) = 1
            /\ ContentAt(ret.files, Plan[i].out_path) = InfraContents(Plan[i])

C11_Witness ==
    /\ Succeeded
    /\ gen = <<CargoBlockB>>
    /\ "rust/gitignore.template" \notin tera.names
    /\ "rust/gitignore.tera" \in tera.names
    /\ files[1] = File(CargoToml, <<"rust/Cargo.toml.template", "\n">>)
    /\ ContentAt(files, GitIgnore) = {<<"rust/gitignore.tera", "\n">>}

\* the blocks each of the given blocks gives when it is the whole output
RECURSIVE BlocksOneByOne(_, _)
BlocksOneByOne(g, i) ==
    IF i > Len(g) THEN <<>>
    ELSE slice_file_blocks(BlockText(g[i])) \o BlocksOneByOne(g, i + 1)

FirstAccepted == IF sanitize_path(slice_in.first).some THEN 1 ELSE 0

\* C12: slice_file_blocks cuts a block from the end of its header to the
\* start of the next header (or the end of the text).  For two outputs that
\* differ only in the closing fence line of the first block (present,
\* missing or malformed), every later block has the same path and content
\* in both results: the path and content it has as an output of its own;
\* and no later block is lost.
C12_LaterBlocksKeepBoundaries ==
    pc = "slice_done" =>
        LET n == FirstAccepted
            laterOf(r) == SubSeq(r, n + 1, Len(r))
        IN  /\ Len(slice_out.other) = n + Cardinality(Accepted(slice_in.later))
            /\ Len(slice_out.closed) = Len(slice_out.other)
            /\ \A j \in (n + 1)..Len(slice_out.other) :
                  slice_out.other[j] = slice_out.closed[j]
            /\ laterOf(slice_out.other) = BlocksOneByOne(slice_in.later, 1)

C12_Witness ==
    /\ pc = "slice_done"
    /\ slice_in = [first |-> SrcMainX, close |-> <<>>,
                   later |-> <<ReadmeHi, MainB>>]
    /\ slice_out.closed[1] = File(SrcMainX, BodyA)
    /\ slice_out.other[1] = File(SrcMainX, FenceOpen \o LF \o BodyA \o LF)
    /\ slice_out.other[2] = slice_out.closed[2]
    /\ slice_out.other[3] = File(SrcMainX, BodyB)

===========================================================================
